---- MODULE Spec2Model ----
(***************************************************************************)
(* Model of the FitTrack backend (src/app.py): module import that loads     *)
(* the estimator, the fake signup/login store, the category encoder, the    *)
(* 28-slot feature list built by the /predict handler and the handler's     *)
(* try/except response.                                                     *)
(*                                                                          *)
(* Conventions.                                                             *)
(*   - A Python str is a sequence of one-character strings, so that         *)
(*     str.lower() is computed character by character.                      *)
(*   - An Optional[T] value is <<>> (None) or <<v>> (the value v).          *)
(*   - A float is an integer number of hundredths (1.70 is 170, 65 is 6500).*)
(***************************************************************************)
EXTENDS Integers, Sequences, FiniteSets, TLC

VARIABLES
    artifact,       \* the file calories_predictor_model.joblib: "missing", "corrupt" or "ok"
    phase,          \* the process: "import", "serving" or "failed"
    model,          \* module global model: <<>> before the load, <<object>> after
    loads,          \* number of joblib.load calls that returned
    fake_users_db,  \* module global fake_users_db: email -> [name, password]
    thr,            \* threadpool worker -> the request it is handling
    features,       \* call frame -> the local variable features of predict
    enc_in,         \* encoder harness: the arguments (category, mapping)
    enc_out         \* encoder harness: the results for category and category.upper()

vars == <<artifact, phase, model, loads, fake_users_db, thr, features, enc_in, enc_out>>

None == <<>>
Some(v) == <<v>>

-----------------------------------------------------------------------------
(* Bounds *)

\* number of threadpool workers handling requests at the same time
NumThreads == 2
\* a bounded PredictRequest supplies at most this many of the 28 fields
MaxSupplied == 2
\* every mixed-case spelling is enumerated for keys of at most this length
MaxCaseLen == 4

-----------------------------------------------------------------------------
(* str.lower() and str.upper() on the letters and the space *)

Letters ==
    << <<"a","A">>, <<"b","B">>, <<"c","C">>, <<"d","D">>, <<"e","E">>,
       <<"f","F">>, <<"g","G">>, <<"h","H">>, <<"i","I">>, <<"j","J">>,
       <<"k","K">>, <<"l","L">>, <<"m","M">>, <<"n","N">>, <<"o","O">>,
       <<"p","P">>, <<"q","Q">>, <<"r","R">>, <<"s","S">>, <<"t","T">>,
       <<"u","U">>, <<"v","V">>, <<"w","W">>, <<"x","X">>, <<"y","Y">>,
       <<"z","Z">> >>

lower_char(c) ==
    IF \E i \in 1..Len(Letters) : Letters[i][2] = c
    THEN Letters[CHOOSE i \in 1..Len(Letters) : Letters[i][2] = c][1]
    ELSE c

upper_char(c) ==
    IF \E i \in 1..Len(Letters) : Letters[i][1] = c
    THEN Letters[CHOOSE i \in 1..Len(Letters) : Letters[i][1] = c][2]
    ELSE c

lower_identity(s) == s

lower(s) == [i \in 1..Len(s) |-> lower_char(s[i])]

upper(s) == [i \in 1..Len(s) |-> upper_char(s[i])]

-----------------------------------------------------------------------------
(* The seven category maps *)

gender_map ==
    (<<"m","a","l","e">> :> 1) @@ (<<"f","e","m","a","l","e">> :> 2)
    @@ (<<"o","t","h","e","r">> :> 3)

workout_map ==
    (<<"s","t","r","e","n","g","t","h">> :> 1) @@ (<<"c","a","r","d","i","o">> :> 2)
    @@ (<<"f","l","e","x","i","b","i","l","i","t","y">> :> 3)
    @@ (<<"o","t","h","e","r">> :> 4)

difficulty_map ==
    (<<"b","e","g","i","n","n","e","r">> :> 1)
    @@ (<<"i","n","t","e","r","m","e","d","i","a","t","e">> :> 2)
    @@ (<<"a","d","v","a","n","c","e","d">> :> 3)

body_part_map ==
    (<<"c","o","r","e">> :> 1)
    @@ (<<"u","p","p","e","r"," ","b","o","d","y">> :> 2)
    @@ (<<"l","o","w","e","r"," ","b","o","d","y">> :> 3)
    @@ (<<"f","u","l","l"," ","b","o","d","y">> :> 4)
    @@ (<<"o","t","h","e","r">> :> 5)

meal_map ==
    (<<"b","r","e","a","k","f","a","s","t">> :> 1) @@ (<<"l","u","n","c","h">> :> 2)
    @@ (<<"d","i","n","n","e","r">> :> 3) @@ (<<"s","n","a","c","k">> :> 4)

diet_map ==
    (<<"s","t","a","n","d","a","r","d">> :> 1) @@ (<<"v","e","g","a","n">> :> 2)
    @@ (<<"k","e","t","o">> :> 3) @@ (<<"p","a","l","e","o">> :> 4)
    @@ (<<"m","e","d","i","t","e","r","r","a","n","e","a","n">> :> 5)

cooking_map ==
    (<<"b","a","k","e","d">> :> 1) @@ (<<"b","o","i","l","e","d">> :> 2)
    @@ (<<"g","r","i","l","l","e","d">> :> 3) @@ (<<"f","r","i","e","d">> :> 4)
    @@ (<<"s","t","e","a","m","e","d">> :> 5)

MapNames ==
    {"gender_map", "workout_map", "difficulty_map", "body_part_map",
     "meal_map", "diet_map", "cooking_map"}

CategoryMap(name) ==
    CASE name = "gender_map" -> gender_map
      [] name = "workout_map" -> workout_map
      [] name = "difficulty_map" -> difficulty_map
      [] name = "body_part_map" -> body_part_map
      [] name = "meal_map" -> meal_map
      [] name = "diet_map" -> diet_map
      [] name = "cooking_map" -> cooking_map

-----------------------------------------------------------------------------
(* encode *)

\* the value that stands for a raised exception where an int is expected
Raised == -1

\* mapping[key] in place of mapping.get(key, default): a missing key raises
dict_getitem(mapping, key, default) ==
    IF key \in DOMAIN mapping THEN mapping[key] ELSE Raised

\* dict.get(key, default)
dict_get(mapping, key, default) ==
    IF key \in DOMAIN mapping THEN mapping[key] ELSE default

\* encode(category, mapping); category is an Optional[str]
encode(category, mapping) ==
    IF category = None
    THEN 0
    ELSE dict_get(mapping, lower(category[1]), 0)

-----------------------------------------------------------------------------
(* PredictRequest and the feature list of predict *)

FieldNames ==
    << "age", "gender", "weight", "height", "fat_percentage", "bmi_input",
       "workout_type", "session_duration", "workout_frequency", "max_bpm",
       "avg_bpm", "resting_bpm", "difficulty", "body_part",
       "meal_type", "diet_type", "cooking_method", "water_intake",
       "meals_frequency", "sugar_g", "sodium_mg", "cholesterol_mg",
       "serving_size_g", "prep_time_min", "cook_time_min", "rating",
       "experience_level", "physical_exercise" >>

Fields == {FieldNames[i] : i \in 1..Len(FieldNames)}

\* the fields declared Optional[str], each with the map predict encodes it with
MapOf ==
    [gender |-> "gender_map", workout_type |-> "workout_map",
     difficulty |-> "difficulty_map", body_part |-> "body_part_map",
     meal_type |-> "meal_map", diet_type |-> "diet_map",
     cooking_method |-> "cooking_map"]

StrFields == DOMAIN MapOf

\* x or 1
or_one(x) == IF x = None \/ x[1] = 0 THEN 1 ELSE x[1]

\* x or 0, for an Optional[float] x
or_zero(x) == IF x = None \/ x[1] = 0 THEN 0 ELSE x[1]

\* the list with weight and height in each other's place
features_swapped(data) ==
    << or_zero(data.age), encode(data.gender, gender_map),
       or_zero(data.height), or_zero(data.weight),
       or_zero(data.fat_percentage), or_zero(data.bmi_input),
       encode(data.workout_type, workout_map), or_zero(data.session_duration),
       or_zero(data.workout_frequency), or_zero(data.max_bpm),
       or_zero(data.avg_bpm), or_zero(data.resting_bpm),
       encode(data.difficulty, difficulty_map), encode(data.body_part, body_part_map),
       encode(data.meal_type, meal_map), encode(data.diet_type, diet_map),
       encode(data.cooking_method, cooking_map),
       or_zero(data.water_intake), or_zero(data.meals_frequency),
       or_zero(data.sugar_g), or_zero(data.sodium_mg),
       or_zero(data.cholesterol_mg), or_zero(data.serving_size_g),
       or_zero(data.prep_time_min), or_zero(data.cook_time_min),
       or_zero(data.rating),
       or_zero(data.experience_level), or_zero(data.physical_exercise) >>

\* the list without the entry of rating
features_short(data) ==
    << or_zero(data.age), encode(data.gender, gender_map),
       or_zero(data.weight), or_zero(data.height),
       or_zero(data.fat_percentage), or_zero(data.bmi_input),
       encode(data.workout_type, workout_map), or_zero(data.session_duration),
       or_zero(data.workout_frequency), or_zero(data.max_bpm),
       or_zero(data.avg_bpm), or_zero(data.resting_bpm),
       encode(data.difficulty, difficulty_map), encode(data.body_part, body_part_map),
       encode(data.meal_type, meal_map), encode(data.diet_type, diet_map),
       encode(data.cooking_method, cooking_map),
       or_zero(data.water_intake), or_zero(data.meals_frequency),
       or_zero(data.sugar_g), or_zero(data.sodium_mg),
       or_zero(data.cholesterol_mg), or_zero(data.serving_size_g),
       or_zero(data.prep_time_min), or_zero(data.cook_time_min),
       or_zero(data.experience_level), or_zero(data.physical_exercise) >>

\* the list literal assigned to features, after the seven encode calls
build_features(data) ==
    << or_zero(data.age), encode(data.gender, gender_map),
       or_zero(data.weight), or_zero(data.height),
       or_zero(data.fat_percentage), or_zero(data.bmi_input),
       encode(data.workout_type, workout_map), or_zero(data.session_duration),
       or_zero(data.workout_frequency), or_zero(data.max_bpm),
       or_zero(data.avg_bpm), or_zero(data.resting_bpm),
       encode(data.difficulty, difficulty_map), encode(data.body_part, body_part_map),
       encode(data.meal_type, meal_map), encode(data.diet_type, diet_map),
       encode(data.cooking_method, cooking_map),
       or_zero(data.water_intake), or_zero(data.meals_frequency),
       or_zero(data.sugar_g), or_zero(data.sodium_mg),
       or_zero(data.cholesterol_mg), or_zero(data.serving_size_g),
       or_zero(data.prep_time_min), or_zero(data.cook_time_min),
       or_zero(data.rating),
       or_zero(data.experience_level), or_zero(data.physical_exercise) >>

-----------------------------------------------------------------------------
(* Inputs *)

Alien == <<"A","l","i","e","n">>

\* first letter upper case, the rest lower case
capitalize(s) ==
    [i \in 1..Len(s) |-> IF i = 1 THEN upper_char(s[i]) ELSE lower_char(s[i])]

\* every mixed-case spelling of s
RECURSIVE Spellings(_)
Spellings(s) ==
    IF s = <<>>
    THEN {<<>>}
    ELSE {<<c>> \o r : c \in {lower_char(Head(s)), upper_char(Head(s))},
                       r \in Spellings(Tail(s))}

AllKeys == UNION {DOMAIN CategoryMap(m) : m \in MapNames}

\* the labels encode is tried on: keys of every map in several spellings,
\* keys with a space before or after, a key cut short, and unknown labels
Labels ==
    AllKeys
    \cup {upper(k) : k \in AllKeys}
    \cup {capitalize(k) : k \in AllKeys}
    \cup {<<" ">> \o k : k \in AllKeys}
    \cup {k \o <<" ">> : k \in AllKeys}
    \cup {SubSeq(k, 1, Len(k) - 1) : k \in AllKeys}
    \cup UNION {Spellings(k) : k \in {j \in AllKeys : Len(j) <= MaxCaseLen}}
    \cup {Alien, <<>>, <<"n","o","n","e">>, <<"N","o","n","e">>, <<"0">>}

\* float values of a request, in hundredths
NumVals == {0, 170, -100}

\* a bounded request gives a field one of three values: a float field 0,
\* 1.70 or -1.0; a str field the key with code 1 capitalized, the key with
\* code 2 in upper case, or an unknown label
NumChoices == 3

FieldValue(f, i) ==
    IF f \in StrFields
    THEN LET M == CategoryMap(MapOf[f])
         IN  CASE i = 1 -> Some(capitalize(CHOOSE k \in DOMAIN M : M[k] = 1))
               [] i = 2 -> Some(upper(CHOOSE k \in DOMAIN M : M[k] = 2))
               [] OTHER -> Some(Alien)
    ELSE CASE i = 1 -> Some(0)
           [] i = 2 -> Some(170)
           [] OTHER -> Some(-100)

EmptyRequest == [f \in Fields |-> None]

\* the sets of at most k fields
RECURSIVE FieldSetsUpTo(_)
FieldSetsUpTo(k) ==
    IF k = 0
    THEN {{}}
    ELSE LET P == FieldSetsUpTo(k - 1)
         IN  P \cup {S \cup {f} : S \in P, f \in Fields}

\* the request that supplies the fields of S, field f with its v[f]-th value
MakeRequest(S, v) == [f \in Fields |-> IF f \in S THEN FieldValue(f, v[f]) ELSE None]

\* requests that supply all 28 fields
FullRequests ==
    {[f \in Fields |->
        IF f \in StrFields
        THEN Some(IF known THEN upper(CHOOSE k \in DOMAIN CategoryMap(MapOf[f]) :
                                        CategoryMap(MapOf[f])[k] = 2)
                           ELSE Alien)
        ELSE Some(n)] : n \in NumVals, known \in BOOLEAN}


\* {"gender":"Female","weight":65,"height":1.70,"workout_type":"cardio","session_duration":1.0}
ExampleRequest ==
    [EmptyRequest EXCEPT !.gender = Some(<<"F","e","m","a","l","e">>),
                         !.weight = Some(6500),
                         !.height = Some(170),
                         !.workout_type = Some(<<"c","a","r","d","i","o">>),
                         !.session_duration = Some(100)]

\* {"gender":"Alien"}
AlienRequest == [EmptyRequest EXCEPT !.gender = Some(Alien)]

ServiceRequests == {EmptyRequest, ExampleRequest, AlienRequest}


\* AuthRequest bodies
AuthRequests ==
    {[name |-> Some("Ann"), email |-> "a@x", password |-> "p1"],
     [name |-> None,        email |-> "a@x", password |-> "p2"],
     [name |-> Some("Bob"), email |-> "b@x", password |-> "p1"],
     [name |-> None,        email |-> "b@x", password |-> "p2"]}

\* what model.predict([features]) can do: return an array whose element 0
\* is a numpy float, raise, or return an array whose element 0 float() rejects
Outcomes ==
    {[kind |-> "float64", value |-> 25034, message |-> ""],
     [kind |-> "float64", value |-> -120, message |-> ""],
     [kind |-> "raises", value |-> 0, message |-> "X has 28 features, but expecting 30"],
     [kind |-> "nonscalar", value |-> 0,
      message |-> "only length-1 arrays can be converted to Python scalars"]}

Threads == 1..NumThreads

-----------------------------------------------------------------------------
(* Module import: lines 48-58 *)

os_path_exists(a) == a # "missing"

\* a load wrapped so that a missing file leaves model = None and the app serves
import_fallback(a) ==
    IF ~os_path_exists(a)
    THEN [phase |-> "serving", model |-> None, loaded |-> 0]
    ELSE IF a = "corrupt"
         THEN [phase |-> "failed", model |-> None, loaded |-> 0]
         ELSE [phase |-> "serving", model |-> Some("estimator"), loaded |-> 1]

\* raise FileNotFoundError when the file is missing, else joblib.load, which
\* raises on a file it cannot read; an exception at import ends the process
import_app(a) ==
    IF ~os_path_exists(a)
    THEN [phase |-> "failed", model |-> None, loaded |-> 0]
    ELSE IF a = "corrupt"
         THEN [phase |-> "failed", model |-> None, loaded |-> 0]
         ELSE [phase |-> "serving", model |-> Some("estimator"), loaded |-> 1]

Import ==
    /\ phase = "import"
    /\ LET r == import_app(artifact)
       IN  /\ phase' = r.phase
           /\ model' = r.model
           /\ loads' = loads + r.loaded
    /\ UNCHANGED <<artifact, fake_users_db, thr, features, enc_in, enc_out>>

-----------------------------------------------------------------------------
(* Request handlers; each runs in a threadpool worker *)

Idle == [pc |-> "idle", op |-> "", data |-> <<>>, sent |-> <<>>,
         outcome |-> <<>>, resp |-> <<>>]

Done(op, data, sent, outcome, resp) ==
    [pc |-> "done", op |-> op, data |-> data, sent |-> sent,
     outcome |-> outcome, resp |-> resp]

\* signup, lines 67-68: the membership test and the early return
SignupCheck(t, data) ==
    /\ phase = "serving"
    /\ thr[t].pc = "idle"
    /\ thr' = [thr EXCEPT ![t] =
                 IF data.email \in DOMAIN fake_users_db
                 THEN Done("signup", data, <<>>, <<>>, [error |-> "User already exists"])
                 ELSE [Idle EXCEPT !.pc = "signup_store", !.op = "signup", !.data = data]]
    /\ UNCHANGED <<artifact, phase, model, loads, fake_users_db, features, enc_in, enc_out>>

\* signup, lines 69-70: the store and the return
SignupStore(t) ==
    /\ thr[t].pc = "signup_store"
    /\ LET data == thr[t].data
       IN  /\ fake_users_db' =
                [e \in DOMAIN fake_users_db \cup {data.email} |->
                    IF e = data.email
                    THEN [name |-> data.name, password |-> data.password]
                    ELSE fake_users_db[e]]
           /\ thr' = [thr EXCEPT ![t] =
                        Done("signup", data, <<>>, <<>>, [message |-> "Signup successful"])]
    /\ UNCHANGED <<artifact, phase, model, loads, features, enc_in, enc_out>>

\* login, lines 74-77
Login(t, data) ==
    /\ phase = "serving"
    /\ thr[t].pc = "idle"
    /\ thr' = [thr EXCEPT ![t] =
                 IF \/ data.email \notin DOMAIN fake_users_db
                    \/ fake_users_db[data.email].password # data.password
                 THEN Done("login", data, <<>>, <<>>, [error |-> "Invalid credentials"])
                 ELSE Done("login", data, <<>>, <<>>, [message |-> "Login successful"])]
    /\ UNCHANGED <<artifact, phase, model, loads, fake_users_db, features, enc_in, enc_out>>

\* health, line 173
Status(t) ==
    /\ phase = "serving"
    /\ thr[t].pc = "idle"
    /\ thr' = [thr EXCEPT ![t] =
                 Done("status", <<>>, <<>>, <<>>, [status |-> "FitTrack AI Backend Running!"])]
    /\ UNCHANGED <<artifact, phase, model, loads, fake_users_db, features, enc_in, enc_out>>

\* one slot shared by every call, as a module global would be
Frame_shared(t) == 1

\* the call frame of the handler running in worker t; features is a local of it
Frame(t) == t

\* predict, lines 137-159: the seven encode calls and the features list
PredictBuild(t, data) ==
    /\ phase = "serving"
    /\ thr[t].pc = "idle"
    /\ features' = [features EXCEPT ![Frame(t)] = build_features(data)]
    /\ thr' = [thr EXCEPT ![t] =
                 [Idle EXCEPT !.pc = "predict_call", !.op = "predict", !.data = data]]
    /\ UNCHANGED <<artifact, phase, model, loads, fake_users_db, enc_in, enc_out>>

\* float(pred) for a numpy float
float(pred) == <<"float", pred[2]>>

\* except ValueError in place of except Exception: other exceptions escape
predict_response_narrow(o) ==
    IF o.kind = "float64"
    THEN [predicted_calories |-> float(<<"np.float64", o.value>>)]
    ELSE IF o.kind = "raises"
         THEN [error |-> o.message]
         ELSE [uncaught |-> o.message]

\* lines 161-166: pred = model.predict([features])[0], the float conversion
\* and the except clause, given what the model.predict call did
predict_response(o) ==
    IF o.kind = "float64"
    THEN [predicted_calories |-> float(<<"np.float64", o.value>>)]
    ELSE [error |-> o.message]

\* model.predict of a model that is None raises AttributeError
CallOutcomes ==
    IF model = None
    THEN {[kind |-> "raises", value |-> 0,
           message |-> "'NoneType' object has no attribute 'predict'"]}
    ELSE Outcomes

\* predict that loads the estimator again on every call
PredictCall_reload(t) ==
    /\ thr[t].pc = "predict_call"
    /\ \E o \in CallOutcomes :
         thr' = [thr EXCEPT ![t] =
                   Done("predict", thr[t].data, features[Frame(t)], o, predict_response(o))]
    /\ model' = Some("estimator")
    /\ loads' = loads + 1
    /\ UNCHANGED <<artifact, phase, fake_users_db, features, enc_in, enc_out>>

\* predict, lines 161-166
PredictCall(t) ==
    /\ thr[t].pc = "predict_call"
    /\ \E o \in CallOutcomes :
         thr' = [thr EXCEPT ![t] =
                   Done("predict", thr[t].data, features[Frame(t)], o, predict_response(o))]
    /\ UNCHANGED <<artifact, phase, model, loads, fake_users_db, features, enc_in, enc_out>>

\* the response is sent and the worker is free again
Return(t) ==
    /\ thr[t].pc = "done"
    /\ thr' = [thr EXCEPT ![t] = Idle]
    /\ features' = [features EXCEPT ![Frame(t)] = <<>>]
    /\ UNCHANGED <<artifact, phase, model, loads, fake_users_db, enc_in, enc_out>>

-----------------------------------------------------------------------------
(* The service *)

NoEnc == [category |-> None, mapping |-> ""]
NoOut == [plain |-> None, upper |-> None]

Init ==
    /\ artifact \in {"missing", "corrupt", "ok"}
    /\ phase = "import"
    /\ model = None
    /\ loads = 0
    /\ fake_users_db = <<>>
    /\ thr = [t \in Threads |-> Idle]
    /\ features = [t \in Threads |-> <<>>]
    /\ enc_in = NoEnc
    /\ enc_out = NoOut

Signup == \E t \in Threads : \E data \in AuthRequests : SignupCheck(t, data)
Store == \E t \in Threads : SignupStore(t)
LoginReq == \E t \in Threads : \E data \in AuthRequests : Login(t, data)
StatusReq == \E t \in Threads : Status(t)
Build == \E t \in Threads : \E data \in ServiceRequests : PredictBuild(t, data)
Call == \E t \in Threads : PredictCall(t)
Respond == \E t \in Threads : Return(t)

Next ==
    \/ Import
    \/ Signup
    \/ Store
    \/ LoginReq
    \/ StatusReq
    \/ Build
    \/ Call
    \/ Respond

Spec == Init /\ [][Next]_vars

-----------------------------------------------------------------------------
(* One worker building feature lists for the bounded requests *)

InitBuild ==
    /\ artifact = "ok"
    /\ phase = "serving"
    /\ model = Some("estimator")
    /\ loads = 1
    /\ fake_users_db = <<>>
    /\ thr = [t \in Threads |-> Idle]
    /\ features = [t \in Threads |-> <<>>]
    /\ enc_in = NoEnc
    /\ enc_out = NoOut

BuildBounded ==
    /\ thr[1].pc = "idle"
    /\ \/ \E S \in FieldSetsUpTo(MaxSupplied) : \E v \in [S -> 1..NumChoices] :
             PredictBuild(1, MakeRequest(S, v))
       \/ \E data \in FullRequests \cup ServiceRequests : PredictBuild(1, data)
CallBounded == PredictCall(1)
RespondBounded == Return(1)

NextBuild ==
    \/ BuildBounded
    \/ CallBounded
    \/ RespondBounded

SpecBuild == InitBuild /\ [][NextBuild]_vars

-----------------------------------------------------------------------------
(* encode applied to a label and to the label in upper case *)

InitEncode ==
    /\ artifact = "ok"
    /\ phase = "import"
    /\ model = None
    /\ loads = 0
    /\ fake_users_db = <<>>
    /\ thr = [t \in Threads |-> Idle]
    /\ features = [t \in Threads |-> <<>>]
    /\ enc_in \in {[category |-> c, mapping |-> m] :
                     c \in {None} \cup {Some(l) : l \in Labels}, m \in MapNames}
    /\ enc_out = NoOut

EncodeCall ==
    /\ enc_out.plain = None
    /\ enc_out' = [enc_out EXCEPT !.plain =
                     Some(encode(enc_in.category, CategoryMap(enc_in.mapping)))]
    /\ UNCHANGED <<artifact, phase, model, loads, fake_users_db, thr, features, enc_in>>

EncodeUpperCall ==
    /\ enc_in.category # None
    /\ enc_out.upper = None
    /\ enc_out' = [enc_out EXCEPT !.upper =
                     Some(encode(Some(upper(enc_in.category[1])),
                                 CategoryMap(enc_in.mapping)))]
    /\ UNCHANGED <<artifact, phase, model, loads, fake_users_db, thr, features, enc_in>>

NextEncode ==
    \/ EncodeCall
    \/ EncodeUpperCall

SpecEncode == InitEncode /\ [][NextEncode]_vars

-----------------------------------------------------------------------------
(* Properties *)

PredictDone(t) == thr[t].pc = "done" /\ thr[t].op = "predict"

\* l spells the key k, in any mix of upper and lower case
SpellingOf(l, k) ==
    /\ Len(l) = Len(k)
    /\ \A i \in 1..Len(k) : l[i] = k[i] \/ l[i] = upper_char(k[i])

\* the value slot f must hold for the request data
ExpectedSlot(data, f) ==
    IF data[f] = None
    THEN 0
    ELSE IF f \in StrFields
         THEN LET M == CategoryMap(MapOf[f])
              IN  IF \E k \in DOMAIN M : SpellingOf(data[f][1], k)
                  THEN M[CHOOSE k \in DOMAIN M : SpellingOf(data[f][1], k)]
                  ELSE 0
         ELSE data[f][1]

\* C1: the feature list predict passes to model.predict has exactly 28
\* entries, whichever fields the request supplies.
C1_Length ==
    \A t \in Threads :
        /\ thr[t].pc = "predict_call" => Len(features[Frame(t)]) = 28
        /\ PredictDone(t) => Len(thr[t].sent) = 28

C1_Witness ==
    \E t \in Threads :
        /\ PredictDone(t)
        /\ thr[t].data \in FullRequests
        /\ Len(thr[t].sent) = 28

\* C2: slot k of the list passed to model.predict holds the k-th field of
\* the fixed order: a supplied number unchanged, 0 for an absent number, the
\* map's code for a label; the request of the end-to-end example gives
\* gender 2, weight 65, height 1.70, workout_type 2, session_duration 1.0
\* and 0 elsewhere.
C2_Slots ==
    \A t \in Threads :
        /\ thr[t].pc = "predict_call" =>
             \A k \in 1..28 :
                features[Frame(t)][k] = ExpectedSlot(thr[t].data, FieldNames[k])
        /\ PredictDone(t) =>
             /\ \A k \in DOMAIN thr[t].sent :
                   thr[t].sent[k] = ExpectedSlot(thr[t].data, FieldNames[k])
             /\ thr[t].data = ExampleRequest =>
                   thr[t].sent = <<0, 2, 6500, 170, 0, 0, 2, 100, 0, 0, 0, 0, 0, 0,
                                   0, 0, 0, 0, 0, 0, 0, 0, 0, 0, 0, 0, 0, 0>>

C2_Witness ==
    \E t \in Threads :
        /\ PredictDone(t)
        /\ thr[t].data = ExampleRequest
        /\ thr[t].sent[2] = 2
        /\ thr[t].sent[3] = 6500
        /\ thr[t].sent[7] = 2

\* C3: encode returns 0 for an absent label and for every label that is not
\* a spelling of a key of the map, and it never raises.
C3_Fallback ==
    enc_out.plain # None =>
        /\ enc_out.plain[1] # Raised
        /\ enc_in.category = None => enc_out.plain[1] = 0
        /\ (/\ enc_in.category # None
            /\ ~ \E k \in DOMAIN CategoryMap(enc_in.mapping) :
                    SpellingOf(enc_in.category[1], k))
           => enc_out.plain[1] = 0

C3_Witness ==
    /\ enc_in.category = Some(<<" ","m","a","l","e">>)
    /\ enc_in.mapping = "gender_map"
    /\ enc_out.plain = Some(0)

\* C4: for a label that spells a key of the map in any case, encode of the
\* label and encode of the label in upper case both give the positive code
\* the map assigns to the key.
C4_CaseInsensitive ==
    (enc_in.category # None /\ enc_out.plain # None /\ enc_out.upper # None) =>
        \A k \in DOMAIN CategoryMap(enc_in.mapping) :
            SpellingOf(enc_in.category[1], k) =>
                /\ enc_out.plain[1] = CategoryMap(enc_in.mapping)[k]
                /\ enc_out.upper[1] = enc_out.plain[1]
                /\ enc_out.plain[1] > 0

C4_Witness ==
    /\ enc_in.category = Some(<<"m","A","l","E">>)
    /\ enc_in.mapping = "gender_map"
    /\ enc_out.plain = Some(1)
    /\ enc_out.upper = Some(1)

\* C5: for the request with no field supplied the feature list is 28 zeros.
C5_EmptyRequest ==
    \A t \in Threads :
        (PredictDone(t) /\ thr[t].data = EmptyRequest) =>
            thr[t].sent = [k \in 1..28 |-> 0]

C5_Witness ==
    \E t \in Threads :
        /\ PredictDone(t)
        /\ thr[t].data = EmptyRequest
        /\ thr[t].sent[1] = 0
        /\ thr[t].sent[28] = 0

\* C6: a finished predict call has a response with exactly one key:
\* predicted_calories, the float of the value, when model.predict returned
\* and the conversion succeeded, and error, the message, when a step raised.
C6_ResponseShape ==
    \A t \in Threads :
        PredictDone(t) =>
            LET o == thr[t].outcome
                r == thr[t].resp
            IN  IF o.kind = "float64"
                THEN /\ DOMAIN r = {"predicted_calories"}
                     /\ r.predicted_calories = <<"float", o.value>>
                ELSE /\ DOMAIN r = {"error"}
                     /\ r.error = o.message

C6_Witness ==
    \E t, u \in Threads :
        /\ PredictDone(t)
        /\ thr[t].outcome.kind = "nonscalar"
        /\ DOMAIN thr[t].resp = {"error"}
        /\ PredictDone(u)
        /\ thr[u].outcome.kind = "float64"
        /\ DOMAIN thr[u].resp = {"predicted_calories"}

\* C7: when the model file is missing at startup the process never serves:
\* no worker ever takes or answers a request.
C7_NoServingWithoutModel ==
    artifact = "missing" =>
        /\ phase # "serving"
        /\ \A t \in Threads : thr[t].pc = "idle"

C7_Witness == artifact = "missing" /\ phase = "failed"

\* C8: two finished predict calls with the same request body passed the same
\* feature list to model.predict, whatever ran before or between them.
C8_Deterministic ==
    \A t, u \in Threads :
        (PredictDone(t) /\ PredictDone(u) /\ thr[t].data = thr[u].data) =>
            thr[t].sent = thr[u].sent

C8_Witness ==
    \E t, u \in Threads :
        /\ t # u
        /\ PredictDone(t)
        /\ PredictDone(u)
        /\ thr[t].data = ExampleRequest
        /\ thr[u].data = ExampleRequest
        /\ thr[t].sent = thr[u].sent
        /\ DOMAIN fake_users_db # {}

\* C9: the estimator is loaded once, before any request is handled, and no
\* handler step changes the global model or loads it again.
C9_LoadedOnce ==
    /\ [](\A t \in Threads : thr[t].pc # "idle" => (loads = 1 /\ model # None))
    /\ [][phase = "serving" => (model' = model /\ loads' = loads)]_vars

C9_Witness ==
    \E t, u \in Threads :
        /\ PredictDone(t)
        /\ thr[u].pc = "predict_call"
        /\ loads = 1
        /\ model = Some("estimator")

\* C10: once an email is a key of fake_users_db, no later step changes the
\* name and password stored for it.
C10_NeverOverwritten ==
    [][\A e \in DOMAIN fake_users_db :
          /\ e \in DOMAIN fake_users_db'
          /\ fake_users_db'[e] = fake_users_db[e]]_vars

====
